---- MODULE Spec2Model ----
(***************************************************************************)
(* Model of datasets/voc.py: VOCSegmentation.__getitem__ (one or two       *)
(* augmented views of an image and the overlap of the two crops) and       *)
(* collate_fn2 (flattening a batch of samples into stacked tensors).       *)
(***************************************************************************)
EXTENDS Integers, Sequences, FiniteSets, TLC

VARIABLES
    num_copy,      \* self.num_copy
    transform,     \* self.transform: "None", "ext" or "train_ext"
    pc,            \* "idle" before the first item access, "done" after one
    index,         \* the index of the last item access
    H, W,          \* size of the image opened by the last item access
    transforms,    \* local list `transforms` of __getitem__ (placements)
    i1, j1, i2, j2,\* locals of __getitem__ after lines 171-176
    overlap,       \* local boolean mask `overlap` of __getitem__
    result,        \* the value __getitem__ returned (<<>> if it raised)
    raised,        \* the exception __getitem__ raised ("none" if it returned)
    batchs,        \* the samples the loader has fetched for the next batch
    collated,      \* the value collate_fn2 returned (<<>> if none)
    collateRaised  \* the exception collate_fn2 raised, "none", or "notcalled"

vars == <<num_copy, transform, pc, index, H, W, transforms, i1, j1, i2, j2,
          overlap, result, raised, batchs, collated, collateRaised>>

itemVars == <<pc, index, H, W, transforms, i1, j1, i2, j2, overlap, result, raised>>

----------------------------------------------------------------------------
(* Bounds of the inputs.                                                   *)

MaxNumCopy == 3      \* num_copy ranges over 0..MaxNumCopy
OffsetNear == 50     \* crop offsets drawn by the crop transform
OffsetMid  == 100
OffsetEdge == 515
OffsetFar  == 600
PadSmall   == 7      \* padding reported by the crop transform
ImgSmall   == 500    \* image sizes
ImgShort   == 600
ImgLong    == 800
MaxBatch   == 3      \* samples per batch

Offsets == {0, OffsetNear, OffsetMid, OffsetEdge, OffsetFar}
Pads    == {0, PadSmall}
NumCopyValues == 0..MaxNumCopy
TransformKinds == {"None", "ext", "train_ext"}

\* self.images[i] for i in 1..Len(ImageSizes): the (H, W) of each image file
ImageSizes == << <<ImgShort, ImgLong>>, <<ImgShort, ImgShort>>, <<ImgSmall, ImgShort>> >>

----------------------------------------------------------------------------
(* Python helpers.                                                         *)

max3(a, b, c) == IF a >= b /\ a >= c THEN a ELSE IF b >= c THEN b ELSE c
min3(a, b, c) == IF a <= b /\ a <= c THEN a ELSE IF b <= c THEN b ELSE c

\* Normalisation of one bound of a slice over a dimension of length n:
\* a negative bound counts from the end, then the bound is clipped to [0, n].
SliceBound(x, n) ==
    IF x < 0 THEN (IF x + n < 0 THEN 0 ELSE x + n)
    ELSE (IF x > n THEN n ELSE x)

\* [start:stop] on a dimension of length n selects the indices k with
\* lo <= k < hi, for <<lo, hi>> the normalised bounds.
PySlice(start, stop, n) == <<SliceBound(start, n), SliceBound(stop, n)>>

SliceLen(s) == IF s[2] > s[1] THEN s[2] - s[1] ELSE 0

PyList(items) == [kind |-> "list", items |-> items]

\* A tensor is known by its shape, the data it was taken from and the path of
\* indexing steps from that data (-1 is an axis added by unsqueeze).
Tensor(shape, name, idx, crop) ==
    [kind |-> "tensor", shape |-> shape, name |-> name, index |-> idx,
     crop |-> crop, path |-> <<>>]

----------------------------------------------------------------------------
(* The crop transform (utils/train_ext_transforms.py, an external          *)
(* collaborator): its placement record.                                    *)

h == 513
w == 513

NumChannels == 3

\* (offset_row, offset_col, crop_h, crop_w, pad_row, pad_col)
Placements ==
    { <<orow, ocol, h, w, prow, pcol>> :
        orow \in Offsets, ocol \in Offsets, prow \in Pads, pcol \in Pads }

\* the cropped image and mask a transform returns for placement t
CropImg(idx, t) == Tensor(<<NumChannels, h, w>>, "img", idx, t)
CropTarget(idx, t) == Tensor(<<h, w>>, "target", idx, t)

----------------------------------------------------------------------------
(* VOCSegmentation.__getitem__                                             *)

\* torch.zeros((H, W), dtype=torch.bool) followed by at most one rectangular
\* slice assignment: the mask is True exactly at the (r, c) with r in the
\* slice `rows` and c in the slice `cols`.
ZerosMask(HH, WW) ==
    [kind |-> "tensor", shape |-> <<HH, WW>>, name |-> "overlap",
     rows |-> <<0, 0>>, cols |-> <<0, 0>>, path |-> <<>>]

\* the number of True pixels of a mask
TrueCount(m) == SliceLen(m.rows) * SliceLen(m.cols)

\* lines 171-176: padding_x and padding_y are view 0's; line 174 compares
\* (i2 == padding_x) and assigns nothing
Corr_i1(t0, t1) == t0[1] - t0[5]
Corr_i2(t0, t1) == t1[1]
Corr_j1(t0, t1) == t0[2] - t0[6]
Corr_j2(t0, t1) == t1[2] - t0[6]

\* line 180
AssignOverlap(a1, b1, a2, b2, HH, WW) ==
    [ZerosMask(HH, WW) EXCEPT
        !.rows = PySlice(max3(a1, a2, 0), min3(a1 + h, a2 + h, HH), HH),
        !.cols = PySlice(max3(b1, b2, 0), min3(b1 + w, b2 + w, WW), WW)]

\* Overlap1 without the translation into view A's frame: the shared
\* rectangle in image coordinates
Overlap1Abs(a1, b1, a2, b2, HH, WW) ==
    << max3(a1, a2, 0), max3(b1, b2, 0),
       min3(a1 + h, a2 + h, HH), min3(b1 + w, b2 + w, WW) >>

\* line 181
Overlap1(a1, b1, a2, b2, HH, WW) ==
    << max3(a1, a2, 0) - a1, max3(b1, b2, 0) - b1,
       min3(a1 + h, a2 + h, HH) - a1, min3(b1 + w, b2 + w, WW) - b1 >>

\* line 182
Overlap2(a1, b1, a2, b2, HH, WW) ==
    << max3(a1, a2, 0) - a2, max3(b1, b2, 0) - b2,
       min3(a1 + h, a2 + h, HH) - a2, min3(b1 + w, b2 + w, WW) - b2 >>

NoLocals == [transforms |-> <<>>, i1 |-> 0, j1 |-> 0, i2 |-> 0, j2 |-> 0]

Raise(exc, HH, WW) ==
    NoLocals @@ [overlap |-> <<>>, result |-> <<>>, raised |-> exc]

\* lines 157-160
SingleView(tr, idx, HH, WW, t0) ==
    IF tr = "ext"
    THEN NoLocals @@
         [overlap |-> ZerosMask(HH, WW),
          result |-> <<CropImg(idx, <<>>), CropTarget(idx, <<>>), ZerosMask(HH, WW)>>,
          raised |-> "none"]
    ELSE Raise("ValueError", HH, WW)   \* line 158 unpacks two values

\* lines 161-192
DualView(tr, idx, HH, WW, t0, t1) ==
    IF tr = "train_ext"
    THEN LET a1 == Corr_i1(t0, t1)
             a2 == Corr_i2(t0, t1)
             b1 == Corr_j1(t0, t1)
             b2 == Corr_j2(t0, t1)
         IN [transforms |-> <<t0, t1>>, i1 |-> a1, j1 |-> b1, i2 |-> a2, j2 |-> b2,
             overlap |-> AssignOverlap(a1, b1, a2, b2, HH, WW),
             result |-> << PyList(<<CropImg(idx, t0), CropImg(idx, t1)>>),
                           PyList(<<CropTarget(idx, t0), CropTarget(idx, t1)>>),
                           PyList(<<PyList(Overlap1(a1, b1, a2, b2, HH, WW)),
                                    PyList(Overlap2(a1, b1, a2, b2, HH, WW))>>) >>,
             raised |-> "none"]
    ELSE Raise("ValueError", HH, WW)   \* line 166 unpacks three values

\* lines 146-195
getitem(nc, tr, idx, t0, t1) ==
    LET HH == ImageSizes[idx][1]
        WW == ImageSizes[idx][2]
    IN IF tr # "None"
       THEN IF nc = 1 THEN SingleView(tr, idx, HH, WW, t0)
            ELSE IF nc = 2 THEN DualView(tr, idx, HH, WW, t0, t1)
            ELSE Raise("NotImplementedError", HH, WW)
       ELSE Raise("UnboundLocalError", HH, WW)   \* line 195: overlap is unbound

----------------------------------------------------------------------------
(* collate_fn2                                                             *)

PyLen(x) == IF x.kind = "list" THEN Len(x.items) ELSE x.shape[1]

\* x[i] for a 0-based i with 0 <= i < PyLen(x); indexing the axis that
\* unsqueeze added gives back the tensor that was unsqueezed
PyIndex(x, i) ==
    IF x.kind = "list" THEN x.items[i + 1]
    ELSE IF x.path # <<>> /\ x.path[Len(x.path)] = -1
         THEN [x EXCEPT !.shape = Tail(@), !.path = SubSeq(@, 1, Len(@) - 1)]
    ELSE [x EXCEPT !.shape = Tail(@), !.path = Append(@, i)]

\* torch.unsqueeze(t, 0)
Unsqueeze(t) == [t EXCEPT !.shape = <<1>> \o @, !.path = Append(@, -1)]

RECURSIVE SumLeading(_)
SumLeading(ts) == IF ts = <<>> THEN 0 ELSE Head(ts).shape[1] + SumLeading(Tail(ts))

\* torch.cat(ts, dim=0) succeeds on a non-empty list of tensors that agree on
\* every dimension but the first
CatOk(ts) ==
    /\ Len(ts) > 0
    /\ \A k \in 1..Len(ts) : Tail(ts[k].shape) = Tail(ts[1].shape)

Cat(ts) ==
    [kind |-> "tensor", shape |-> <<SumLeading(ts)>> \o Tail(ts[1].shape),
     parts |-> ts, path |-> <<>>]

\* a third view slot in _overlaps
NewOverlapsWide == << <<>>, <<>>, <<>> >>

\* line 215
NewOverlaps == << <<>>, <<>> >>

\* the append of line 221 with the view slots counted from the end
AppendOverlapSwapped(ovs, i, x) ==
    [ovs EXCEPT ![Len(ovs) - i] = Append(@, x)]

\* line 221: _overlaps[i].append(x), i 0-based
AppendOverlap(ovs, i, x) == [ovs EXCEPT ![i + 1] = Append(@, x)]

\* lines 218-221: the body of the inner loop from position i on
RECURSIVE CollateViews(_, _, _)
CollateViews(acc, sample, i) ==
    LET imgs == sample[1]
        targets == sample[2]
        overlaps == sample[3]
    IN IF acc.raised # "none" \/ i >= PyLen(imgs) THEN acc
       ELSE IF i >= PyLen(targets)
            THEN [acc EXCEPT !.raised = "IndexError"]
       ELSE IF i >= Len(acc.overlaps) \/ i >= PyLen(overlaps)
            THEN [acc EXCEPT !.raised = "IndexError"]
       ELSE CollateViews(
                [acc EXCEPT
                    !.imgs = Append(@, Unsqueeze(PyIndex(imgs, i))),
                    !.targets = Append(@, Unsqueeze(PyIndex(targets, i))),
                    !.overlaps = AppendOverlap(@, i, PyIndex(overlaps, i))],
                sample, i + 1)

\* lines 216-221: the outer loop from sample k (1-based) on
RECURSIVE CollateSamples(_, _, _)
CollateSamples(acc, bs, k) ==
    IF acc.raised # "none" \/ k > Len(bs) THEN acc
    ELSE CollateSamples(CollateViews(acc, bs[k], 0), bs, k + 1)

\* lines 212-222
collate_fn2(bs) ==
    LET acc == CollateSamples(
                   [imgs |-> <<>>, targets |-> <<>>, overlaps |-> NewOverlaps,
                    raised |-> "none"], bs, 1)
    IN IF acc.raised # "none" THEN [result |-> <<>>, raised |-> acc.raised]
       ELSE IF ~CatOk(acc.imgs) \/ ~CatOk(acc.targets)
            THEN [result |-> <<>>, raised |-> "RuntimeError"]
       ELSE [result |-> << Cat(acc.imgs), Cat(acc.targets),
                           PyList([v \in 1..Len(acc.overlaps) |->
                                      PyList(acc.overlaps[v])]) >>,
             raised |-> "none"]

----------------------------------------------------------------------------
(* Item access: a dataset is constructed, then items are read from it.     *)

NoCollate ==
    /\ batchs = <<>>
    /\ collated = <<>>
    /\ collateRaised = "notcalled"

NoItem ==
    /\ pc = "idle"
    /\ index = 0
    /\ H = 0
    /\ W = 0
    /\ transforms = <<>>
    /\ i1 = 0 /\ j1 = 0 /\ i2 = 0 /\ j2 = 0
    /\ overlap = <<>>
    /\ result = <<>>
    /\ raised = "none"

\* VOCSegmentation.__init__: lines 103 and 109
Init ==
    /\ num_copy \in NumCopyValues
    /\ transform \in TransformKinds
    /\ NoItem
    /\ NoCollate

\* dataset[idx]; t0 and t1 are the placements the crop transform draws.
\* __getitem__ writes no field of the dataset, so an access does not depend on
\* the accesses before it: a behaviour holds one access.
GetItem(idx, t0, t1) ==
    LET r == getitem(num_copy, transform, idx, t0, t1)
    IN /\ pc = "idle"
       /\ pc' = "done"
       /\ index' = idx
       /\ H' = ImageSizes[idx][1]
       /\ W' = ImageSizes[idx][2]
       /\ transforms' = r.transforms
       /\ i1' = r.i1 /\ j1' = r.j1 /\ i2' = r.i2 /\ j2' = r.j2
       /\ overlap' = r.overlap
       /\ result' = r.result
       /\ raised' = r.raised
       /\ UNCHANGED <<num_copy, transform, batchs, collated, collateRaised>>

Next ==
    /\ pc = "idle"
    /\ \E idx \in DOMAIN ImageSizes, t0 \in Placements, t1 \in Placements :
          GetItem(idx, t0, t1)

Spec == Init /\ [][Next]_vars

----------------------------------------------------------------------------
(* Batch loading: a loader fetches samples and hands each batch to         *)
(* collate_fn2 (lines 237-238).                                            *)

LoadPlacements ==
    { <<0, 0, h, w, 0, 0>>, <<OffsetNear, OffsetMid, h, w, PadSmall, PadSmall>> }

InitCollate ==
    /\ num_copy = 2
    /\ transform = "train_ext"
    /\ NoItem
    /\ NoCollate

\* the loader fetches one more sample of the batch; the samples come from
\* 1-view and 2-view datasets
Load(nc, tr, idx, t0, t1) ==
    LET r == getitem(nc, tr, idx, t0, t1)
    IN /\ collateRaised = "notcalled"
       /\ Len(batchs) < MaxBatch
       /\ r.raised = "none"
       /\ batchs' = Append(batchs, r.result)
       /\ UNCHANGED <<num_copy, transform, collated, collateRaised>>
       /\ UNCHANGED itemVars

\* the loader calls collate_fn2 on the batch it has fetched
Collate ==
    LET r == collate_fn2(batchs)
    IN /\ collateRaised = "notcalled"
       /\ Len(batchs) >= 1
       /\ collated' = r.result
       /\ collateRaised' = r.raised
       /\ UNCHANGED <<num_copy, transform, batchs>>
       /\ UNCHANGED itemVars

\* the loader goes on to the next batch
NextBatch ==
    /\ collateRaised # "notcalled"
    /\ batchs' = <<>>
    /\ collated' = <<>>
    /\ collateRaised' = "notcalled"
    /\ UNCHANGED <<num_copy, transform>>
    /\ UNCHANGED itemVars

NextCollate ==
    \/ \E nc \in {1, 2}, tr \in {"ext", "train_ext"}, idx \in DOMAIN ImageSizes,
          t0 \in LoadPlacements, t1 \in LoadPlacements :
            Load(nc, tr, idx, t0, t1)
    \/ Collate
    \/ NextBatch

SpecCollate == InitCollate /\ [][NextCollate]_vars

----------------------------------------------------------------------------
(* Properties of __getitem__ (checked under Spec).                         *)

\* a 2-view item access that called the crop transform twice
DualCalled == pc = "done" /\ num_copy = 2 /\ transform = "train_ext"
DualReturned == DualCalled /\ raised = "none"

\* the padding-corrected offsets of the two views: each view's own offset
\* minus that view's own padding
row_a == transforms[1][1] - transforms[1][5]
col_a == transforms[1][2] - transforms[1][6]
row_b == transforms[2][1] - transforms[2][5]
col_b == transforms[2][2] - transforms[2][6]

\* the shared rectangle of the two crops inside the image
row_start == max3(row_a, row_b, 0)
row_end   == min3(row_a + h, row_b + h, H)
col_start == max3(col_a, col_b, 0)
col_end   == min3(col_a + w, col_b + w, W)

\* the OverlapRegions returned for view A and view B
RegionA == result[3].items[1].items
RegionB == result[3].items[2].items

ZeroArea(r) == r[3] <= r[1] \/ r[4] <= r[2]
InsideView(r) ==
    /\ 0 <= r[1] /\ r[1] <= h /\ 0 <= r[3] /\ r[3] <= h
    /\ 0 <= r[2] /\ r[2] <= w /\ 0 <= r[4] /\ r[4] <= w

\* C1: in a 2-view sample the offsets used by the overlap computation are each
\* view's own crop offset minus that view's own padding, on both axes.
C1_OwnPaddingSubtracted ==
    DualReturned =>
        /\ i1 = row_a
        /\ j1 = col_a
        /\ i2 = row_b
        /\ j2 = col_b

\* C2 as stated: both OverlapRegions of every 2-view sample lie inside
\* [0, height] x [0, width], all four coordinates, overlapping or not.
C2_RegionsInsideView ==
    DualReturned => InsideView(RegionA) /\ InsideView(RegionB)

\* C2 amended: in every 2-view sample each region has 0 <= row_start,
\* row_end <= height, 0 <= col_start, col_end <= width; on an axis where the
\* region's start is below its end both coordinates lie in [0, size].
RegionClamped(r) ==
    /\ 0 <= r[1] /\ r[3] <= h
    /\ 0 <= r[2] /\ r[4] <= w
    /\ (r[1] < r[3] => r[1] <= h /\ 0 <= r[3])
    /\ (r[2] < r[4] => r[2] <= w /\ 0 <= r[4])

C2_RegionsClamped ==
    DualReturned => RegionClamped(RegionA) /\ RegionClamped(RegionB)

\* a 2-view sample of two crops that miss each other on the row axis: view A's
\* region starts below the view's last row
C2_DisjointReached ==
    /\ DualReturned
    /\ RegionA[1] > h
    /\ transforms[1][5] # 0

\* C3: two crops that do not intersect inside the image give no error, an
\* all-False mask and two zero-area regions.
C3_DisjointGivesEmpty ==
    DualCalled /\ (row_start >= row_end \/ col_start >= col_end) =>
        /\ raised = "none"
        /\ TrueCount(overlap) = 0
        /\ ZeroArea(RegionA)
        /\ ZeroArea(RegionB)

\* C4: the number of True pixels of the mask is the product of the two
\* clamped interval lengths, or zero if either length is not positive.
C4_MaskCountIsClampedArea ==
    DualReturned =>
        TrueCount(overlap) =
            IF row_end - row_start > 0 /\ col_end - col_start > 0
            THEN (row_end - row_start) * (col_end - col_start)
            ELSE 0

\* C5: translating view A's region by (row_a, col_a) and view B's region by
\* (row_b, col_b) gives the same rectangle, the shared rectangle.
C5_SameAbsoluteRectangle ==
    DualReturned =>
        /\ <<RegionA[1] + row_a, RegionA[2] + col_a,
             RegionA[3] + row_a, RegionA[4] + col_a>>
           = <<row_start, col_start, row_end, col_end>>
        /\ <<RegionB[1] + row_b, RegionB[2] + col_b,
             RegionB[3] + row_b, RegionB[4] + col_b>>
           = <<row_start, col_start, row_end, col_end>>

\* C6, for crops that lie inside the image: identical placements give the
\* region (0, 0, height, width) for both views and a mask that is True exactly
\* on the crop rectangle.
C6_IdenticalPlacements ==
    /\ DualReturned
    /\ transforms[1] = transforms[2]
    /\ 0 <= row_a /\ row_a + h <= H
    /\ 0 <= col_a /\ col_a + w <= W
    =>
        /\ RegionA = <<0, 0, h, w>>
        /\ RegionB = <<0, 0, h, w>>
        /\ overlap.rows = <<row_a, row_a + h>>
        /\ overlap.cols = <<col_a, col_a + w>>

\* C7: a view count other than 1 or 2 fails with NotImplementedError, whatever
\* the transform.
C7_UnsupportedViewCount ==
    pc = "done" /\ num_copy \notin {1, 2} => raised = "NotImplementedError"

\* C10: with transform=None an item access returns a tuple of the image, its
\* target and an overlap value, without raising.
C10_TransformOptional ==
    pc = "done" /\ transform = "None" => raised = "none" /\ Len(result) = 3

----------------------------------------------------------------------------
(* Properties of collate_fn2 (checked under SpecCollate).                  *)

IsDual(sample) == sample[1].kind = "list" /\ Len(sample[1].items) = 2
AllDual(bs) == \A k \in 1..Len(bs) : IsDual(bs[k])

\* entry j (0-based) along the first dimension of a tensor made by torch.cat
RECURSIVE EntryOf(_, _)
EntryOf(parts, j) ==
    IF j < Head(parts).shape[1] THEN PyIndex(Head(parts), j)
    ELSE EntryOf(Tail(parts), j - Head(parts).shape[1])

C9_MixedBatchFails ==
    collateRaised # "notcalled" /\ ~AllDual(batchs) =>
        /\ collateRaised = "IndexError"
        /\ collated = <<>>

\* collate_fn2 has failed on a batch whose first sample is a 2-view sample and
\* whose second sample is a 1-view sample
C9_MixedBatchReached ==
    /\ collateRaised \notin {"notcalled", "none"}
    /\ Len(batchs) >= 2
    /\ IsDual(batchs[1])
    /\ ~IsDual(batchs[2])

====
